---- MODULE Spec2Model ----
(***************************************************************************)
(* run-clang-tidy.py: the driver (main) starts max_task daemon threads     *)
(* running run_tidy, fills a bounded queue.Queue with the filtered file    *)
(* names, waits in task_queue.join() and exits with 1 iff failed_files is  *)
(* not empty.  Each worker loops forever: queue.get, subprocess.Popen,     *)
(* communicate(timeout), on TimeoutExpired a notice + kill + communicate,  *)
(* append to failed_files on a non-zero return code, the output written    *)
(* under the lock, queue.task_done.                                        *)
(***************************************************************************)
EXTENDS Integers, Sequences, FiniteSets, TLC

\* Largest number of file names the compilation database holds.
MaxItems == 2
\* Largest value of -j and of multiprocessing.cpu_count().
MaxWorkers == 2

\* Largest number of -extra-arg and of -extra-arg-before options.
MaxArgs == 2

\* Signal number Popen.kill() and os.kill(0, 9) send; a child ended by it
\* has returncode -SIGKILL.
SIGKILL == 9
\* KeyboardInterrupt that nothing catches ends the process by SIGINT.
SIGINT == 2
\* Exit status of an interpreter that cannot flush stdout when it ends.
FlushFailed == 120

Items == 1..MaxItems
\* extensions of the names: a source file and the two the fill step drops
Exts == {"cpp", "cu", "cuh"}
Workers == 1..MaxWorkers

VARIABLES
  j,                \* args.j
  timeout,          \* args.timeout is not None
  database,         \* the file names of compile_commands.json, made absolute
  ext,              \* per name, its extension
  incl,             \* per name, file_name_re.search(name) matches
  excl,             \* per name, -excluded-file-patterns is given and matches
  files,            \* the set main holds: all names, then those left by the filters
  cpu_count,        \* what multiprocessing.cpu_count() returned, 0 if not called
  args,             \* the options get_tidy_invocation is called with
  invocation,       \* per thread, the command line built for its name
  build_path,       \* main's build_path, None until it is resolved
  dpc,              \* position of main; the process has ended at "exited"
                    \* (sys.exit), "raised" (uncaught exception),
                    \* "interrupted" (uncaught KeyboardInterrupt), "killed"
                    \* (os.kill(0, 9)), "handler_raised" (the print of the
                    \* KeyboardInterrupt handler raised), "handler_interrupted"
                    \* (KeyboardInterrupt inside that handler)
  preflight,        \* outcome of the -list-checks call
  max_task,
  queue_created,
  maxsize,          \* task_queue.maxsize
  task_queue,       \* task_queue.queue
  unfinished_tasks, \* task_queue.unfinished_tasks
  failed_files,
  lock,             \* 0 when free, else the worker holding it
  started,          \* number of threads started
  toput,            \* names the fill loop has not put yet
  return_code,
  exit_status,      \* exit status of the process, NotExited while it runs
  wpc,              \* position of each run_tidy thread
  name,             \* the name each thread is working on, 0 when it has none
  proc,             \* per name, the state of its clang-tidy child
  code,             \* per name, the exit code of its child once it ended
  timedout,         \* per name, communicate raised TimeoutExpired
  overran,          \* per thread, the child of its name was still running then
  written,          \* per name, the blocks written: the timeout notice, stdout
  nspawn,           \* per name, number of Popen calls that started a child
  ndone             \* per name, number of task_done calls

vars == <<args, invocation, build_path, overran, j, timeout, database, ext, incl, excl, files, cpu_count, dpc, preflight, max_task,
          queue_created, maxsize, task_queue, unfinished_tasks, failed_files,
          lock, started, toput, return_code, exit_status, wpc, name, proc,
          code, timedout, written, nspawn, ndone>>

dvars == <<files, cpu_count, dpc, preflight, max_task, queue_created, maxsize, started, toput,
           return_code, exit_status>>
params == <<j, timeout, database, ext, incl, excl, args>>
inputs == <<params, invocation>>

\* exit_status value of a process that has not ended.
NotExited == 0 - 1

Range(s) == {s[k] : k \in 1..Len(s)}

----------------------------------------------------------------------------
\* An option that was not given.
None == "None"
\* Values of a string option: not given, empty, given.
Opt == {None, "", "x"}
\* Values of -extra-arg / -extra-arg-before: lists of at most MaxArgs entries.
ArgLists == UNION {[1..n -> {"a", "b"}] : n \in 0..MaxArgs}

\* The options parse_args can return, as far as get_tidy_invocation reads them.
ArgsSet ==
  [clang_tidy_binary : {"clang-tidy"}, build_path : {None, "."},
   allow_enabling_alpha_checkers : BOOLEAN, header_filter : Opt, checks : Opt,
   fix : BOOLEAN, extra_arg : ArgLists, extra_arg_before : ArgLists,
   quiet : BOOLEAN, config : Opt, config_file : Opt, format_style : Opt]

\* The defaults of the argument parser.
DefaultArgs ==
  [clang_tidy_binary |-> "clang-tidy", build_path |-> None,
   allow_enabling_alpha_checkers |-> FALSE, header_filter |-> None,
   checks |-> None, fix |-> FALSE, extra_arg |-> <<>>,
   extra_arg_before |-> <<>>, quiet |-> FALSE, config |-> None,
   config_file |-> None, format_style |-> None]

\* The state when main starts, after parse_args.
MainInit ==
  /\ j \in (0 - 1)..MaxWorkers
  /\ timeout \in BOOLEAN
  /\ database \in {1..n : n \in 0..MaxItems}
  /\ ext \in [Items -> Exts]
  /\ incl \in [Items -> BOOLEAN]
  /\ excl \in [Items -> BOOLEAN]
  /\ \A i \in Items \ database : ext[i] = "cpp" /\ incl[i] /\ ~excl[i]
  \* a pattern is never searched in a name that an earlier comprehension has
  \* dropped: the match that is not computed has one value here
  /\ \A i \in Items : ext[i] \in {"cu", "cuh"} => (incl[i] /\ ~excl[i])
  /\ \A i \in Items : ~incl[i] => ~excl[i]
  /\ files = {}
  /\ cpu_count = 0
  /\ build_path = None
  /\ dpc = "resolve"
  /\ preflight = "pending"
  /\ max_task = 0
  /\ queue_created = FALSE
  /\ maxsize = 0
  /\ task_queue = <<>>
  /\ unfinished_tasks = 0
  /\ failed_files = <<>>
  /\ lock = 0
  /\ started = 0
  /\ toput = {}
  /\ return_code = 0
  /\ exit_status = NotExited
  /\ wpc = [w \in Workers |-> "unstarted"]
  /\ name = [w \in Workers |-> 0]
  /\ proc = [i \in Items |-> "none"]
  /\ code = [i \in Items |-> 0]
  /\ timedout = [i \in Items |-> FALSE]
  /\ overran = [w \in Workers |-> FALSE]
  /\ written = [i \in Items |-> {}]
  /\ nspawn = [i \in Items |-> 0]
  /\ ndone = [i \in Items |-> 0]

\* The run of main with the default options.
Init ==
  /\ MainInit
  /\ args = DefaultArgs
  /\ invocation = [w \in Workers |-> <<>>]

\* A call of get_tidy_invocation with any options.
InvInit ==
  /\ MainInit
  /\ j = 0 /\ ~timeout /\ database = {}
  /\ args \in ArgsSet
  /\ invocation = [w \in Workers |-> <<>>]

----------------------------------------------------------------------------
\* Pure pieces of the code.

\* Python truth value of an option string
Truthy(v) == v # None /\ v # ""

\* the list with one token per entry of a list option
Tokens(flag, list) == [k \in 1..Len(list) |-> <<flag, list[k]>>]

\* the order the specification words give: -extra-arg-before first
get_tidy_invocation_before_first(f, clang_tidy_binary, checks, fix, bpath, header_filter, allow_enabling_alpha_checkers, extra_arg, extra_arg_before, quiet, config, config_file, format_style) ==
  <<<<"", clang_tidy_binary>>>>
  \o (IF allow_enabling_alpha_checkers
        THEN <<<<"-allow-enabling-analyzer-alpha-checkers", "">>>> ELSE <<>>)
  \o (IF header_filter # None THEN <<<<"-header-filter=", header_filter>>>> ELSE <<>>)
  \o (IF Truthy(checks) THEN <<<<"-checks=", checks>>>> ELSE <<>>)
  \o (IF fix THEN <<<<"-fix", "">>>> ELSE <<>>)
  \o Tokens("-extra-arg-before=", extra_arg_before)
  \o Tokens("-extra-arg=", extra_arg)
  \o <<<<"-p=", bpath>>>>
  \o (IF quiet THEN <<<<"-quiet", "">>>> ELSE <<>>)
  \o (IF Truthy(config) THEN <<<<"-config=", config>>>> ELSE <<>>)
  \o (IF Truthy(config_file) THEN <<<<"-config-file=", config_file>>>> ELSE <<>>)
  \o (IF Truthy(format_style) THEN <<<<"-format-style=", format_style>>>> ELSE <<>>)
  \o <<<<"", f>>>>

\* get_tidy_invocation: the command line, each token as <<prefix, value>>
\* (bpath is the parameter build_path)
get_tidy_invocation(f, clang_tidy_binary, checks, fix, bpath, header_filter, allow_enabling_alpha_checkers, extra_arg, extra_arg_before, quiet, config, config_file, format_style) ==
  <<<<"", clang_tidy_binary>>>>
  \o (IF allow_enabling_alpha_checkers
        THEN <<<<"-allow-enabling-analyzer-alpha-checkers", "">>>> ELSE <<>>)
  \o (IF header_filter # None THEN <<<<"-header-filter=", header_filter>>>> ELSE <<>>)
  \o (IF Truthy(checks) THEN <<<<"-checks=", checks>>>> ELSE <<>>)
  \o (IF fix THEN <<<<"-fix", "">>>> ELSE <<>>)
  \o Tokens("-extra-arg=", extra_arg)
  \o Tokens("-extra-arg-before=", extra_arg_before)
  \o <<<<"-p=", bpath>>>>
  \o (IF quiet THEN <<<<"-quiet", "">>>> ELSE <<>>)
  \o (IF Truthy(config) THEN <<<<"-config=", config>>>> ELSE <<>>)
  \o (IF Truthy(config_file) THEN <<<<"-config-file=", config_file>>>> ELSE <<>>)
  \o (IF Truthy(format_style) THEN <<<<"-format-style=", format_style>>>> ELSE <<>>)
  \o <<<<"", f>>>>

\* invocation = get_tidy_invocation(name, args.clang_tidy_binary, ...) as
\* run_tidy calls it
Invocation(n) ==
  get_tidy_invocation(n, args.clang_tidy_binary, args.checks, args.fix,
                      build_path, args.header_filter,
                      args.allow_enabling_alpha_checkers, args.extra_arg,
                      args.extra_arg_before, args.quiet, args.config,
                      args.config_file, args.format_style)

\* a slip that would miss the children ended by a signal
FailedPositive(rc) == rc > 0

\* proc.returncode != 0
Failed(rc) == rc # 0

\* a join that only waits for the queue to be empty
DrainedWhenEmpty == task_queue = <<>>

\* while self.unfinished_tasks: wait
Drained == unfinished_tasks = 0

\* a get that leaves the name in the queue
DequeuedPeek(q) == q

\* queue after popleft
Dequeued(q) == Tail(q)

\* put blocks while maxsize > 0 and qsize >= maxsize
Full == maxsize > 0 /\ Len(task_queue) >= maxsize

\* if failed_files: return_code = 1
ReturnCode(ff) == IF ff # <<>> THEN 1 ELSE 0

\* where main goes after the -list-checks call
AfterPreflight(ok) == IF ok THEN "load" ELSE "report"

\* a resolution that ignores -j
MaxTaskIgnoresJ(jj, cpus) == cpus

\* max_task = args.j; if max_task == 0: max_task = cpu_count()
MaxTask(jj, cpus) == IF jj = 0 THEN cpus ELSE jj

\* a loop that starts one thread too many
MoreToStartOffByOne == started <= max_task /\ started < MaxWorkers

\* for _ in range(max_task): another round is due
MoreToStart == started < max_task

\* a fill step that forgets the .cuh filter
FilteredKeepsCuh(fs) ==
  {n \in fs : ext[n] # "cu" /\ incl[n] /\ ~excl[n]}

\* the four set comprehensions of the fill step
Filtered(fs) ==
  LET f1 == {n \in fs : ext[n] # "cu"}
      f2 == {n \in f1 : ext[n] # "cuh"}
      f3 == {n \in f2 : incl[n]}
  IN  {n \in f3 : ~excl[n]}

\* the children after SIGKILL was sent to the whole process group
GroupKilledProc(p) ==
  [i \in Items |-> IF p[i] = "running" THEN "exited" ELSE p[i]]
GroupKilledCode(p, c) ==
  [i \in Items |-> IF p[i] = "running" THEN 0 - SIGKILL ELSE c[i]]

\* an append that loses what the other threads appended
AppendedLost(ff, n) == <<n>>

\* failed_files.append(name): one call of list.append
Appended(ff, n) == Append(ff, n)

\* threads that outlive the process
ThreadsRemain == wpc

\* the threads once the process has ended
ThreadsGone == [w \in Workers |-> IF wpc[w] = "unstarted" THEN "unstarted" ELSE "gone"]

----------------------------------------------------------------------------
\* main

\* find_compilation_database: the real path of the nearest directory upwards
\* that holds compile_commands.json, or None when the search reaches "/" and
\* the function calls sys.exit(1)
find_compilation_database(found) == IF found THEN "/db" ELSE None

\* build_path = args.build_path if -p is given, else
\* find_compilation_database(db_path).  When no database is found it prints
\* its error on stdout and calls sys.exit(1): the process ends by sys.exit
\* when the print returned and by the uncaught OSError when it raised, with
\* status 1, or FlushFailed when stdout cannot be flushed at the end
ResolveBuildPath(found, printed, flushed) ==
  /\ dpc = "resolve"
  /\ LET path == IF args.build_path # None
                   THEN args.build_path
                   ELSE find_compilation_database(found)
     IN  /\ build_path' = path
         /\ dpc' = IF path # None THEN "preflight"
                  ELSE IF printed THEN "exited" ELSE "raised"
         /\ exit_status' = IF path # None THEN exit_status
                          ELSE IF flushed THEN 1 ELSE FlushFailed
  /\ UNCHANGED <<inputs, overran, files, cpu_count, preflight, max_task,
                 queue_created, maxsize, task_queue, unfinished_tasks,
                 failed_files, lock, started, toput, return_code, wpc, name,
                 proc, code, timedout, written, nspawn, ndone>>

\* subprocess.check_call(invocation) inside try: it returns, or it raises
\* (the binary cannot be started, a non-zero status, KeyboardInterrupt) and
\* except BaseException is entered
Preflight(ok) ==
  /\ dpc = "preflight"
  /\ preflight' = IF ok THEN "ok" ELSE "failed"
  /\ dpc' = AfterPreflight(ok)
  /\ UNCHANGED <<inputs, build_path, overran, files, cpu_count, max_task,
                 queue_created, maxsize, task_queue, unfinished_tasks,
                 failed_files, lock, started, toput, return_code, exit_status,
                 wpc, name, proc, code, timedout, written, nspawn, ndone>>

\* the handler: print("Unable to run clang-tidy.", file=sys.stderr);
\* sys.exit(1).  When the print returned the process ends by sys.exit(1);
\* when it raised, by the uncaught OSError; the status is 1, or FlushFailed
\* when the stream that took the text cannot be flushed at the end
PreflightReport(printed, flushed) ==
  /\ dpc = "report"
  /\ dpc' = IF printed THEN "exited" ELSE "raised"
  /\ exit_status' = IF flushed THEN 1 ELSE FlushFailed
  /\ UNCHANGED <<inputs, build_path, overran, files, cpu_count, preflight,
                 max_task, queue_created, maxsize, task_queue,
                 unfinished_tasks, failed_files, lock, started, toput,
                 return_code, wpc, name, proc, code, timedout, written, nspawn,
                 ndone>>

\* load the database, resolve max_task (cpus is what
\* multiprocessing.cpu_count() returns), compile the filters, return_code = 0
Load(cpus) ==
  /\ dpc = "load"
  /\ files' = database
  /\ cpu_count' = IF j = 0 THEN cpus ELSE 0
  /\ max_task' = MaxTask(j, cpus)
  /\ return_code' = 0
  /\ dpc' = "create"
  /\ UNCHANGED <<inputs, build_path, overran, preflight, queue_created, maxsize, task_queue,
                 unfinished_tasks, failed_files, lock, started, toput,
                 exit_status, wpc, name, proc, code, timedout, written, nspawn,
                 ndone>>

\* json.load(open(...)) or entry["file"] raises (lines 280-281), or
\* re.compile raises (lines 288, 291) after files and max_task were
\* assigned: nothing catches it, main ends with a traceback and status 1, or
\* FlushFailed when stderr cannot be flushed at the end
LoadRaises(cpus, assigned, flushed) ==
  /\ dpc = "load"
  /\ files' = IF assigned THEN database ELSE files
  /\ cpu_count' = IF assigned /\ j = 0 THEN cpus ELSE cpu_count
  /\ max_task' = IF assigned THEN MaxTask(j, cpus) ELSE max_task
  /\ dpc' = "raised"
  /\ exit_status' = IF flushed THEN 1 ELSE FlushFailed
  /\ UNCHANGED <<inputs, build_path, overran, preflight, queue_created,
                 maxsize, task_queue, unfinished_tasks, failed_files, lock,
                 started, toput, return_code, wpc, name, proc, code, timedout,
                 written, nspawn, ndone>>

\* task_queue = queue.Queue(max_task); failed_files = []; lock = Lock()
CreateQueue ==
  /\ dpc = "create"
  /\ queue_created' = TRUE
  /\ maxsize' = max_task
  /\ task_queue' = <<>>
  /\ unfinished_tasks' = 0
  /\ failed_files' = <<>>
  /\ lock' = 0
  /\ dpc' = "spawn"
  /\ UNCHANGED <<inputs, build_path, overran, files, cpu_count, preflight, max_task, started, toput, return_code,
                 exit_status, wpc, name, proc, code, timedout, written, nspawn,
                 ndone>>

\* one round of: for _ in range(max_task): Thread(...).start()
StartWorker ==
  /\ dpc = "spawn"
  /\ MoreToStart
  /\ started' = started + 1
  /\ wpc' = [wpc EXCEPT ![started + 1] = "get"]
  /\ UNCHANGED <<inputs, build_path, overran, files, cpu_count, dpc, preflight, max_task, queue_created, maxsize,
                 task_queue, unfinished_tasks, failed_files, lock, toput,
                 return_code, exit_status, name, proc, code, timedout, written,
                 nspawn, ndone>>

\* t.start() raises (RuntimeError: can't start new thread): except
\* KeyboardInterrupt does not catch it, main ends with a traceback and
\* status 1, or FlushFailed when stderr cannot be flushed at the end, and the
\* threads already started with it
StartWorkerRaises(flushed) ==
  /\ dpc = "spawn"
  /\ MoreToStart
  /\ dpc' = "raised"
  /\ exit_status' = IF flushed THEN 1 ELSE FlushFailed
  /\ wpc' = ThreadsGone
  /\ UNCHANGED <<inputs, build_path, overran, files, cpu_count, preflight,
                 max_task, queue_created, maxsize, task_queue,
                 unfinished_tasks, failed_files, lock, started, toput,
                 return_code, name, proc, code, timedout, written, nspawn,
                 ndone>>

\* the loop is over; the filters are applied and the count printed
Filter ==
  /\ dpc = "spawn"
  /\ ~MoreToStart
  /\ files' = Filtered(files)
  /\ toput' = Filtered(files)
  /\ dpc' = "put"
  /\ UNCHANGED <<inputs, build_path, overran, cpu_count, preflight, max_task, queue_created, maxsize,
                 task_queue, unfinished_tasks, failed_files, lock, started,
                 return_code, exit_status, wpc, name, proc, code, timedout,
                 written, nspawn, ndone>>

\* print("Will check", ...) raises (stdout cannot be written): except
\* KeyboardInterrupt does not catch it, main ends with a traceback and
\* status 1, or FlushFailed when what the print left in the buffer cannot
\* be flushed at the end, and its daemon threads with it
FilterRaises(flushed) ==
  /\ dpc = "spawn"
  /\ ~MoreToStart
  /\ files' = Filtered(files)
  /\ dpc' = "raised"
  /\ exit_status' = IF flushed THEN 1 ELSE FlushFailed
  /\ wpc' = ThreadsGone
  /\ UNCHANGED <<inputs, build_path, overran, cpu_count, preflight, max_task,
                 queue_created, maxsize, task_queue, unfinished_tasks,
                 failed_files, lock, started, toput, return_code, name, proc,
                 code, timedout, written, nspawn, ndone>>

\* task_queue.put(name) for the next name the loop over the set yields; the
\* names are numbered in that order
Put(i) ==
  /\ dpc = "put"
  /\ i \in toput
  /\ \A k \in toput : i <= k
  /\ ~Full
  /\ task_queue' = Append(task_queue, i)
  /\ unfinished_tasks' = unfinished_tasks + 1
  /\ toput' = toput \ {i}
  /\ UNCHANGED <<inputs, build_path, overran, files, cpu_count, dpc, preflight, max_task, queue_created, maxsize,
                 failed_files, lock, started, return_code, exit_status, wpc,
                 name, proc, code, timedout, written, nspawn, ndone>>

\* the fill loop is over; main calls task_queue.join()
EndPut ==
  /\ dpc = "put"
  /\ toput = {}
  /\ dpc' = "join"
  /\ UNCHANGED <<inputs, build_path, overran, files, cpu_count, preflight, max_task, queue_created, maxsize,
                 task_queue, unfinished_tasks, failed_files, lock, started,
                 toput, return_code, exit_status, wpc, name, proc, code,
                 timedout, written, nspawn, ndone>>

\* task_queue.join() returns
Join ==
  /\ dpc = "join"
  /\ Drained
  /\ dpc' = "check"
  /\ UNCHANGED <<inputs, build_path, overran, files, cpu_count, preflight, max_task, queue_created, maxsize,
                 task_queue, unfinished_tasks, failed_files, lock, started,
                 toput, return_code, exit_status, wpc, name, proc, code,
                 timedout, written, nspawn, ndone>>

\* if failed_files: return_code = 1
CheckFailed ==
  /\ dpc = "check"
  /\ return_code' = ReturnCode(failed_files)
  /\ dpc' = "exit"
  /\ UNCHANGED <<inputs, build_path, overran, files, cpu_count, preflight, max_task, queue_created, maxsize,
                 task_queue, unfinished_tasks, failed_files, lock, started,
                 toput, exit_status, wpc, name, proc, code, timedout, written,
                 nspawn, ndone>>

\* sys.exit(return_code): the process ends and its daemon threads with it;
\* when the interpreter cannot flush stdout the status is 120 instead
Exit(flushed) ==
  /\ dpc = "exit"
  /\ exit_status' = IF flushed THEN return_code ELSE FlushFailed
  /\ dpc' = "exited"
  /\ wpc' = ThreadsGone
  /\ UNCHANGED <<inputs, build_path, overran, files, cpu_count, preflight,
                 max_task, queue_created, maxsize, task_queue,
                 unfinished_tasks, failed_files, lock, started, toput,
                 return_code, name, proc, code, timedout, written, nspawn,
                 ndone>>

\* positions of main inside try: ... except KeyboardInterrupt
InTry == {"create", "spawn", "put", "join", "check"}

\* KeyboardInterrupt is raised in the main thread inside try and except
\* KeyboardInterrupt is entered; the threads go on running
Interrupt ==
  /\ dpc \in InTry
  /\ dpc' = "handler"
  /\ UNCHANGED <<inputs, build_path, overran, files, cpu_count, preflight,
                 max_task, queue_created, maxsize, task_queue,
                 unfinished_tasks, failed_files, lock, started, toput,
                 return_code, exit_status, wpc, name, proc, code, timedout,
                 written, nspawn, ndone>>

\* the handler: print("Ctrl-C detected, goodbye.") returns and
\* os.kill(0, 9) ends the process group
KillGroup ==
  /\ dpc = "handler"
  /\ dpc' = "killed"
  /\ exit_status' = 0 - SIGKILL
  /\ wpc' = ThreadsGone
  /\ proc' = GroupKilledProc(proc)
  /\ code' = GroupKilledCode(proc, code)
  /\ UNCHANGED <<inputs, build_path, overran, files, cpu_count, preflight,
                 max_task, queue_created, maxsize, task_queue,
                 unfinished_tasks, failed_files, lock, started, toput,
                 return_code, name, timedout, written, nspawn, ndone>>

\* the handler's print raises (stdout cannot be written): os.kill(0, 9) is
\* not reached, the process ends with a traceback and status 1, or
\* FlushFailed when what the print left in the buffer cannot be flushed at
\* the end, and the children go on running
InterruptPrintRaises(flushed) ==
  /\ dpc = "handler"
  /\ dpc' = "handler_raised"
  /\ exit_status' = IF flushed THEN 1 ELSE FlushFailed
  /\ wpc' = ThreadsGone
  /\ UNCHANGED <<inputs, build_path, overran, files, cpu_count, preflight,
                 max_task, queue_created, maxsize, task_queue,
                 unfinished_tasks, failed_files, lock, started, toput,
                 return_code, name, proc, code, timedout, written, nspawn,
                 ndone>>

\* KeyboardInterrupt is raised again inside the handler, before os.kill(0, 9):
\* nothing catches it, the process ends by SIGINT and the children go on
\* running
InterruptInHandler ==
  /\ dpc = "handler"
  /\ dpc' = "handler_interrupted"
  /\ exit_status' = 0 - SIGINT
  /\ wpc' = ThreadsGone
  /\ UNCHANGED <<inputs, build_path, overran, files, cpu_count, preflight,
                 max_task, queue_created, maxsize, task_queue,
                 unfinished_tasks, failed_files, lock, started, toput,
                 return_code, name, proc, code, timedout, written, nspawn,
                 ndone>>

\* positions of main outside try and outside the pre-flight try, the
\* pre-flight handler included
OutsideTry == {"resolve", "report", "load", "exit"}

\* KeyboardInterrupt is raised where nothing catches it: the process ends by
\* SIGINT
InterruptOutside ==
  /\ dpc \in OutsideTry
  /\ dpc' = "interrupted"
  /\ exit_status' = 0 - SIGINT
  /\ wpc' = ThreadsGone
  /\ UNCHANGED <<inputs, build_path, overran, files, cpu_count, preflight,
                 max_task, queue_created, maxsize, task_queue,
                 unfinished_tasks, failed_files, lock, started, toput,
                 return_code, name, proc, code, timedout, written, nspawn,
                 ndone>>

----------------------------------------------------------------------------
\* run_tidy

\* name = queue.get(); invocation = get_tidy_invocation(name, ...)
Get(w) ==
  /\ wpc[w] = "get"
  /\ task_queue # <<>>
  /\ name' = [name EXCEPT ![w] = Head(task_queue)]
  /\ invocation' = [invocation EXCEPT ![w] = Invocation(Head(task_queue))]
  /\ task_queue' = Dequeued(task_queue)
  /\ wpc' = [wpc EXCEPT ![w] = "popen"]
  /\ UNCHANGED <<params, build_path, overran, dvars, unfinished_tasks,
                 failed_files, lock, proc, code, timedout, written, nspawn,
                 ndone>>

\* subprocess.Popen(invocation, ...) starts the child
Popen(w) ==
  /\ wpc[w] = "popen"
  /\ proc' = [proc EXCEPT ![name[w]] = "running"]
  /\ nspawn' = [nspawn EXCEPT ![name[w]] = @ + 1]
  /\ wpc' = [wpc EXCEPT ![w] = "communicate"]
  /\ UNCHANGED <<inputs, build_path, overran, dvars, task_queue, unfinished_tasks, failed_files,
                 lock, name, code, timedout, written, ndone>>

\* subprocess.Popen raises OSError: the thread ends with a traceback
PopenRaises(w) ==
  /\ wpc[w] = "popen"
  /\ wpc' = [wpc EXCEPT ![w] = "dead"]
  /\ UNCHANGED <<inputs, build_path, overran, dvars, task_queue, unfinished_tasks, failed_files,
                 lock, name, proc, code, timedout, written, nspawn, ndone>>

\* the clang-tidy child of name i ends by itself with exit code c
ChildExit(i, c) ==
  /\ proc[i] = "running"
  /\ proc' = [proc EXCEPT ![i] = "exited"]
  /\ code' = [code EXCEPT ![i] = c]
  /\ UNCHANGED <<inputs, build_path, overran, dvars, task_queue, unfinished_tasks, failed_files,
                 lock, wpc, name, timedout, written, nspawn, ndone>>

\* proc.communicate(timeout=timeout) returns: the child ended and is reaped
Communicate(w) ==
  /\ wpc[w] = "communicate"
  /\ proc[name[w]] = "exited"
  /\ proc' = [proc EXCEPT ![name[w]] = "reaped"]
  /\ wpc' = [wpc EXCEPT ![w] = "check"]
  /\ UNCHANGED <<inputs, build_path, overran, dvars, task_queue, unfinished_tasks, failed_files,
                 lock, name, code, timedout, written, nspawn, ndone>>

\* proc.communicate(timeout=timeout) raises TimeoutExpired: the time is over
\* before communicate has collected the output, whether the child is still
\* running or has just ended
Timeout(w) ==
  /\ wpc[w] = "communicate"
  /\ timeout
  /\ timedout' = [timedout EXCEPT ![name[w]] = TRUE]
  /\ overran' = [overran EXCEPT ![w] = (proc[name[w]] = "running")]
  /\ wpc' = [wpc EXCEPT ![w] = "notice"]
  /\ UNCHANGED <<inputs, build_path, dvars, task_queue, unfinished_tasks,
                 failed_files, lock, name, proc, code, written, nspawn, ndone>>

\* sys.stderr.write("timeout and kill clang-tidy")
Notice(w) ==
  /\ wpc[w] = "notice"
  /\ written' = [written EXCEPT ![name[w]] = @ \cup {"notice"}]
  /\ wpc' = [wpc EXCEPT ![w] = "kill"]
  /\ UNCHANGED <<inputs, build_path, overran, dvars, task_queue, unfinished_tasks, failed_files,
                 lock, name, proc, code, timedout, nspawn, ndone>>

\* proc.kill(): poll(), which reaps a child that has ended, and SIGKILL only
\* if the child has not ended
Kill(w) ==
  /\ wpc[w] = "kill"
  /\ IF proc[name[w]] = "running"
       THEN /\ proc' = [proc EXCEPT ![name[w]] = "exited"]
            /\ code' = [code EXCEPT ![name[w]] = 0 - SIGKILL]
       ELSE /\ proc' = [proc EXCEPT ![name[w]] = "reaped"]
            /\ UNCHANGED code
  /\ wpc' = [wpc EXCEPT ![w] = "drain"]
  /\ UNCHANGED <<inputs, build_path, overran, dvars, task_queue, unfinished_tasks, failed_files,
                 lock, name, timedout, written, nspawn, ndone>>

\* output, err = proc.communicate() after the kill
Drain(w) ==
  /\ wpc[w] = "drain"
  /\ proc[name[w]] \in {"exited", "reaped"}
  /\ proc' = [proc EXCEPT ![name[w]] = "reaped"]
  /\ wpc' = [wpc EXCEPT ![w] = "check"]
  /\ UNCHANGED <<inputs, build_path, overran, dvars, task_queue, unfinished_tasks, failed_files,
                 lock, name, code, timedout, written, nspawn, ndone>>

\* if proc.returncode != 0: failed_files.append(name)
Check(w) ==
  /\ wpc[w] = "check"
  /\ failed_files' = IF Failed(code[name[w]])
                       THEN Appended(failed_files, name[w])
                       ELSE failed_files
  /\ wpc' = [wpc EXCEPT ![w] = "lock"]
  /\ UNCHANGED <<inputs, build_path, overran, dvars, task_queue, unfinished_tasks, lock, name,
                 proc, code, timedout, written, nspawn, ndone>>

\* with lock:
Acquire(w) ==
  /\ wpc[w] = "lock"
  /\ lock = 0
  /\ lock' = w
  /\ wpc' = [wpc EXCEPT ![w] = "stdout"]
  /\ UNCHANGED <<inputs, build_path, overran, dvars, task_queue, unfinished_tasks, failed_files,
                 name, proc, code, timedout, written, nspawn, ndone>>

\* sys.stdout.write(output.decode("utf-8"))
WriteStdout(w) ==
  /\ wpc[w] = "stdout"
  /\ written' = [written EXCEPT ![name[w]] = @ \cup {"stdout"}]
  /\ wpc' = [wpc EXCEPT ![w] = "stderr"]
  /\ UNCHANGED <<inputs, build_path, overran, dvars, task_queue, unfinished_tasks, failed_files,
                 lock, name, proc, code, timedout, nspawn, ndone>>

\* if len(err) > 0: flush, sys.stderr.write(err.decode("utf-8")); with or
\* without that write the with block ends here and the lock is released
WriteStderr(w) ==
  /\ wpc[w] = "stderr"
  /\ lock' = 0
  /\ wpc' = [wpc EXCEPT ![w] = "task_done"]
  /\ UNCHANGED <<inputs, build_path, overran, dvars, task_queue,
                 unfinished_tasks, failed_files, name, proc, code, timedout,
                 written, nspawn, ndone>>

\* decode or write raises inside the with block: the lock is released and
\* the thread ends with a traceback
WriteRaises(w) ==
  /\ wpc[w] \in {"stdout", "stderr"}
  /\ lock' = 0
  /\ wpc' = [wpc EXCEPT ![w] = "dead"]
  /\ UNCHANGED <<inputs, build_path, overran, dvars, task_queue, unfinished_tasks, failed_files,
                 name, proc, code, timedout, written, nspawn, ndone>>

\* proc.communicate(timeout=timeout) raises something else than
\* TimeoutExpired (OverflowError for a timeout too large): Popen.__exit__
\* waits until the child has ended, then the thread ends with a traceback
CommunicateRaises(w) ==
  /\ wpc[w] = "communicate"
  /\ timeout
  /\ proc[name[w]] = "exited"
  /\ proc' = [proc EXCEPT ![name[w]] = "reaped"]
  /\ wpc' = [wpc EXCEPT ![w] = "dead"]
  /\ UNCHANGED <<inputs, build_path, overran, dvars, task_queue,
                 unfinished_tasks, failed_files, lock, name, code, timedout,
                 written, nspawn, ndone>>

\* sys.stderr.write of the timeout notice raises (stderr closed or broken):
\* Popen.__exit__ waits until the child has ended, then the thread ends with
\* a traceback, without kill and without task_done
NoticeRaises(w) ==
  /\ wpc[w] = "notice"
  /\ proc[name[w]] = "exited"
  /\ proc' = [proc EXCEPT ![name[w]] = "reaped"]
  /\ wpc' = [wpc EXCEPT ![w] = "dead"]
  /\ UNCHANGED <<inputs, build_path, overran, dvars, task_queue,
                 unfinished_tasks, failed_files, lock, name, code, timedout,
                 written, nspawn, ndone>>

\* queue.task_done()
TaskDone(w) ==
  /\ wpc[w] = "task_done"
  /\ unfinished_tasks' = unfinished_tasks - 1
  /\ ndone' = [ndone EXCEPT ![name[w]] = @ + 1]
  /\ name' = [name EXCEPT ![w] = 0]
  /\ overran' = [overran EXCEPT ![w] = FALSE]
  /\ invocation' = [invocation EXCEPT ![w] = <<>>]
  /\ wpc' = [wpc EXCEPT ![w] = "get"]
  /\ UNCHANGED <<params, build_path, dvars, task_queue, failed_files, lock, proc, code,
                 timedout, written, nspawn>>

----------------------------------------------------------------------------
Driver ==
  \/ \E found, printed, flushed \in BOOLEAN :
       ResolveBuildPath(found, printed, flushed)
  \/ \E ok \in BOOLEAN : Preflight(ok)
  \/ \E printed, flushed \in BOOLEAN : PreflightReport(printed, flushed)
  \/ \E cpus \in 1..MaxWorkers : Load(cpus)
  \/ \E cpus \in 1..MaxWorkers : \E assigned, flushed \in BOOLEAN :
       LoadRaises(cpus, assigned, flushed)
  \/ \E flushed \in BOOLEAN : StartWorkerRaises(flushed)
  \/ \E flushed \in BOOLEAN : FilterRaises(flushed)
  \/ CreateQueue
  \/ StartWorker
  \/ Filter
  \/ \E i \in Items : Put(i)
  \/ EndPut
  \/ Join
  \/ CheckFailed
  \/ \E flushed \in BOOLEAN : Exit(flushed)
  \/ KillGroup

Worker(w) ==
  \/ Get(w)
  \/ Popen(w)
  \/ Communicate(w)
  \/ Notice(w)
  \/ Kill(w)
  \/ Drain(w)
  \/ Check(w)
  \/ Acquire(w)
  \/ WriteStdout(w)
  \/ WriteStderr(w)
  \/ TaskDone(w)

Children == \E i \in Items : \E c \in {0, 1} : ChildExit(i, c)

Raises(w) ==
  PopenRaises(w) \/ CommunicateRaises(w) \/ NoticeRaises(w) \/ WriteRaises(w)

Next ==
  \/ Driver
  \/ \E w \in Workers : Worker(w)
  \/ \E w \in Workers : Timeout(w)
  \/ \E w \in Workers : Raises(w)
  \/ Children
  \/ Interrupt
  \/ \E flushed \in BOOLEAN : InterruptPrintRaises(flushed)
  \/ InterruptInHandler
  \/ InterruptOutside

Spec == Init /\ [][Next]_vars

\* lines 113-127 as thread 1 runs them for name 1
Build ==
  /\ build_path # None
  /\ invocation[1] = <<>>
  /\ invocation' = [invocation EXCEPT ![1] = Invocation(1)]
  /\ UNCHANGED <<params, build_path, overran, dvars, task_queue,
                 unfinished_tasks, failed_files, lock, wpc, name, proc, code,
                 timedout, written, nspawn, ndone>>

InvNext ==
  \/ \E found, printed, flushed \in BOOLEAN :
       ResolveBuildPath(found, printed, flushed)
  \/ Build

\* get_tidy_invocation alone, over every combination of options
InvSpec == InvInit /\ [][InvNext]_vars

\* The scheduler lets every thread that can take a step take one, and every
\* child ends unless it is killed first.
FairSpec ==
  /\ Spec
  /\ WF_vars(Driver)
  /\ \A w \in Workers : WF_vars(Worker(w))
  /\ WF_vars(Children)

----------------------------------------------------------------------------
\* Properties

\* the ways the process ends
Ended ==
  {"exited", "raised", "interrupted", "killed", "handler_raised",
   "handler_interrupted"}

\* the KeyboardInterrupt handler has run
InterruptHandled ==
  dpc \in {"killed", "handler_raised", "handler_interrupted"}

NoDuplicates(s) == \A a, b \in 1..Len(s) : s[a] = s[b] => a = b

\* task_queue.join() has returned
JoinReturned ==
  preflight = "ok" /\ queue_created /\ dpc \in {"check", "exit", "exited"}

\* everything run_tidy does for name i has happened
Recorded(i) ==
  /\ i \notin toput
  /\ i \notin Range(task_queue)
  /\ nspawn[i] = 1
  /\ proc[i] = "reaped"
  /\ (code[i] # 0 => i \in Range(failed_files))
  /\ "stdout" \in written[i]
  /\ ndone[i] = 1

\* C1: once task_queue.join() has returned, failed_files holds exactly the
\* names whose child ended with a non-zero exit code (those killed on timeout
\* included), each once, whatever the number of threads and the interleaving.
C1_FailureListExact ==
  JoinReturned =>
    /\ NoDuplicates(failed_files)
    /\ Range(failed_files) = {i \in files : proc[i] = "reaped" /\ code[i] # 0}

\* join returned with two threads, one name killed on timeout and listed,
\* another ended with 0 and not listed
C1_Witness ==
  /\ JoinReturned
  /\ started >= 2
  /\ \E a, b \in files :
       /\ timedout[a] /\ code[a] = 0 - SIGKILL /\ failed_files = <<a>>
       /\ proc[b] = "reaped" /\ code[b] = 0

\* C2: task_queue.join() never returns early: when it has returned every name
\* was put, taken, run to the end of its child, appended to failed_files if it
\* failed, written and marked done; while a name is not yet marked done the
\* count join waits on is positive, idle threads or not.
C2_DrainNotEarly ==
  /\ JoinReturned => \A i \in files : Recorded(i)
  /\ (dpc = "join" /\ \E i \in files : ~Recorded(i)) => unfinished_tasks > 0

\* join returned after two threads shared at least two names, and every
\* thread is back in queue.get on the empty queue
C2_Witness ==
  /\ JoinReturned
  /\ Cardinality(files) >= 2
  /\ started >= 2
  /\ task_queue = <<>>
  /\ \A w \in 1..started : wpc[w] = "get"

\* C3: with at least one thread and every child ending or being killed,
\* main eventually gets out of task_queue.join() and ends.
C3_DriverTerminates ==
  (j >= 0) => <>(dpc \in Ended)

\* C4: writes of two threads never interleave: every write to stdout or
\* stderr, the timeout notice included, is made under the lock, so while a
\* thread is inside its output block no other thread is at a write.
C4_WritesExclusive ==
  \A w, v \in Workers :
    (w # v /\ wpc[w] \in {"stdout", "stderr"})
      => (lock = w /\ wpc[v] \notin {"notice", "stdout", "stderr"})

\* C5: when main ends through sys.exit(return_code), the exit status is 0 iff
\* failed_files is empty and 1 otherwise; with two names ending with 0 and 1
\* failed_files is exactly the second and the status is 1.
C5_ExitStatus ==
  (JoinReturned /\ dpc = "exited") =>
    /\ exit_status = 0 <=> failed_files = <<>>
    /\ exit_status = 1 <=> failed_files # <<>>
    /\ \A a, b \in files :
         (files = {a, b} /\ a # b /\ code[a] = 0 /\ code[b] = 1)
           => (failed_files = <<b>> /\ exit_status = 1)

\* C6: unless the pre-flight call succeeded there is no queue, no thread, no
\* name enqueued and no child; a failed pre-flight ends main with status 1.
C6_PreflightGate ==
  /\ preflight # "ok" =>
       /\ ~queue_created
       /\ started = 0
       /\ \A w \in Workers : wpc[w] = "unstarted"
       /\ task_queue = <<>> /\ unfinished_tasks = 0
       /\ \A i \in Items : nspawn[i] = 0 /\ proc[i] = "none"
  /\ preflight = "failed" => dpc \in {"report"} \cup Ended
  /\ (preflight = "failed" /\ dpc \in Ended) => exit_status = 1

\* C7: a name is run at most once: at most one child is ever started for it,
\* at most one thread holds it, and once taken it is never in the queue again,
\* failed or timed out or not.
C7_AtMostOnce ==
  /\ NoDuplicates(task_queue)
  /\ \A i \in Items :
       /\ nspawn[i] <= 1
       /\ nspawn[i] = 1 => (i \notin Range(task_queue) /\ i \notin toput)
       /\ Cardinality({w \in Workers : name[w] = i /\ wpc[w] \notin {"get", "gone"}}) <= 1
       /\ (\E w \in Workers : name[w] = i) => i \notin Range(task_queue)

\* a name timed out, failed and was marked done, and the thread that ran it
\* has started the child of another name
C7_Witness ==
  \E a, b \in files : \E w \in Workers :
    /\ a # b
    /\ timedout[a] /\ code[a] # 0 /\ ndone[a] = 1 /\ nspawn[a] = 1
    /\ a \in Range(failed_files)
    /\ name[w] = b /\ wpc[w] = "communicate" /\ started = 1

\* C8: a failed name never stops the others: once a child ended with a
\* non-zero exit code its name is marked done and every other name is still
\* run to the end of its child, unless the run is interrupted.
C8_FailureDoesNotAbortSiblings ==
  \A a, b \in Items :
    (a \in files /\ b \in files /\ proc[a] = "reaped" /\ code[a] # 0)
      ~> ((ndone[a] = 1 /\ proc[b] = "reaped") \/ InterruptHandled)

\* C9: a name whose child was still running when the timeout elapsed is in
\* failed_files by the time its output is written, and when the thread goes
\* back to queue.get the child is reaped and the output written.
C9_TimeoutRecorded ==
  /\ \A w \in Workers :
       (wpc[w] \in {"lock", "stdout", "stderr", "task_done"} /\ overran[w])
         => name[w] \in Range(failed_files)
  /\ \A i \in Items :
       (timedout[i] /\ ndone[i] >= 1)
         => /\ proc[i] = "reaped"
            /\ "stdout" \in written[i]

\* C10: once the KeyboardInterrupt handler has run, the process is gone: no
\* thread is left, no child is running, and from then on nothing is taken
\* from the queue, no child is started and main does not go on to join.
C10_InterruptKillsAll ==
  /\ [](InterruptHandled =>
          /\ \A w \in Workers : wpc[w] \in {"unstarted", "gone"}
          /\ \A i \in Items : proc[i] # "running")
  /\ [][InterruptHandled =>
          /\ task_queue' = task_queue
          /\ nspawn' = nspawn
          /\ dpc' = dpc]_vars

\* the tokens of a command line that start with prefix p, in order
WithPrefix(inv, p) == SelectSeq(inv, LAMBDA t : t[1] = p)

\* the one token of an optional flag, or none
Flag(present, p, v) == IF present THEN <<<<p, v>>>> ELSE <<>>

\* the flags in the order the code emits them
CodeOrder ==
  <<"-allow-enabling-analyzer-alpha-checkers", "-header-filter=", "-checks=",
    "-fix", "-extra-arg=", "-extra-arg-before=", "-p=", "-quiet", "-config=",
    "-config-file=", "-format-style=">>

\* the flags in the order the specification gives
ClaimedOrder ==
  <<"-allow-enabling-analyzer-alpha-checkers", "-header-filter=", "-checks=",
    "-fix", "-extra-arg-before=", "-extra-arg=", "-p=", "-quiet", "-config=",
    "-config-file=", "-format-style=">>

PosIn(order, p) == CHOOSE k \in 1..Len(order) : order[k] = p

\* the binary first, the target last, the flags between them in the order given
InOrder(order, inv) ==
  /\ Len(inv) >= 2
  /\ inv[1] = <<"", args.clang_tidy_binary>>
  /\ inv[Len(inv)] = <<"", 1>>
  /\ \A k \in 2..(Len(inv) - 1) : inv[k][1] \in Range(order)
  /\ \A p, q \in 2..(Len(inv) - 1) :
       p < q => PosIn(order, inv[p][1]) <= PosIn(order, inv[q][1])

\* each flag is there iff its option asks for it, the list options entry by entry
RightFlags(inv) ==
  /\ WithPrefix(inv, "-allow-enabling-analyzer-alpha-checkers")
       = Flag(args.allow_enabling_alpha_checkers,
              "-allow-enabling-analyzer-alpha-checkers", "")
  /\ WithPrefix(inv, "-header-filter=")
       = Flag(args.header_filter # None, "-header-filter=", args.header_filter)
  /\ WithPrefix(inv, "-checks=")
       = Flag(args.checks \notin {None, ""}, "-checks=", args.checks)
  /\ WithPrefix(inv, "-fix") = Flag(args.fix, "-fix", "")
  /\ WithPrefix(inv, "-extra-arg=")
       = [k \in 1..Len(args.extra_arg) |-> <<"-extra-arg=", args.extra_arg[k]>>]
  /\ WithPrefix(inv, "-extra-arg-before=")
       = [k \in 1..Len(args.extra_arg_before) |->
            <<"-extra-arg-before=", args.extra_arg_before[k]>>]
  /\ WithPrefix(inv, "-p=") = <<<<"-p=", build_path>>>>
  /\ build_path = IF args.build_path # None THEN args.build_path ELSE "/db"
  /\ WithPrefix(inv, "-quiet") = Flag(args.quiet, "-quiet", "")
  /\ WithPrefix(inv, "-config=")
       = Flag(args.config \notin {None, ""}, "-config=", args.config)
  /\ WithPrefix(inv, "-config-file=")
       = Flag(args.config_file \notin {None, ""}, "-config-file=", args.config_file)
  /\ WithPrefix(inv, "-format-style=")
       = Flag(args.format_style \notin {None, ""}, "-format-style=", args.format_style)

\* C11 as stated: the command line is the binary, alpha checkers, header
\* filter, checks, fix, every -extra-arg-before entry, then every -extra-arg
\* entry, -p, quiet, config, config file, format style, the target last.
C11_ClaimedOrder ==
  invocation[1] # <<>> =>
    (InOrder(ClaimedOrder, invocation[1]) /\ RightFlags(invocation[1]))

\* C11 amended: the same, except that every -extra-arg entry (in the given
\* order) comes before every -extra-arg-before entry (in the given order).
C11_InvocationOrder ==
  invocation[1] # <<>> =>
    (InOrder(CodeOrder, invocation[1]) /\ RightFlags(invocation[1]))

\* a command line built with every flag set and both lists of two entries
C11_Witness ==
  /\ invocation[1] # <<>>
  /\ args.allow_enabling_alpha_checkers /\ args.fix /\ args.quiet
  /\ args.header_filter = "x" /\ args.checks = "x" /\ args.config = "x"
  /\ args.config_file = "x" /\ args.format_style = "x"
  /\ args.extra_arg = <<"a", "b">>
  /\ args.extra_arg_before = <<"b", "a">>
  /\ args.build_path = None /\ build_path = "/db"
  /\ Len(invocation[1]) = 15

\* the names that pass the extension, inclusion and exclusion filters
PassesFilters(i) ==
  /\ i \in database
  /\ ext[i] \notin {"cu", "cuh"}
  /\ incl[i]
  /\ ~excl[i]

\* the fill step has run
AfterFilter ==
  /\ preflight = "ok" /\ queue_created
  /\ dpc \in {"put", "join", "check", "exit", "exited"}

\* C12: the names enqueued are exactly the names of the database that do not
\* end in .cu or .cuh, match the inclusion pattern and do not match the
\* exclusion pattern if one is given; each is enqueued once, no other name is
\* ever enqueued or run, and when join has returned exactly one child was
\* started for each of them.
C12_EnqueuedExactlyFiltered ==
  /\ AfterFilter => files = {i \in Items : PassesFilters(i)}
  /\ AfterFilter =>
       unfinished_tasks + Cardinality({i \in Items : ndone[i] >= 1})
         = Cardinality({i \in Items : PassesFilters(i)} \ toput)
  /\ \A i \in Items :
       ~PassesFilters(i) =>
         (i \notin Range(task_queue) /\ i \notin toput /\ nspawn[i] = 0)
  /\ JoinReturned =>
       \A i \in Items : nspawn[i] = IF PassesFilters(i) THEN 1 ELSE 0

\* a.cpp and skip.cu with inclusion ".*" and no exclusion: only a.cpp was run
C12_Witness ==
  /\ JoinReturned /\ dpc = "exited"
  /\ database = {1, 2}
  /\ \A i \in database : incl[i] /\ ~excl[i]
  /\ ext[1] = "cpp" /\ ext[2] = "cu"
  /\ files = {1}
  /\ nspawn[1] = 1 /\ nspawn[2] = 0

\* the thread-start loop is over
PoolStarted == preflight = "ok" /\ dpc \in {"put", "join", "check", "exit"}

\* max_task has been resolved
Loaded == preflight = "ok" /\ (dpc = "create" \/ queue_created)

\* C13: the number of threads is resolved once: it is j when j > 0 and the
\* cpu count when j is 0; exactly that many threads are started, the queue
\* capacity is the same number, and none of the three changes afterwards.
C13_WorkerCountFixed ==
  /\ []((Loaded /\ j > 0) => max_task = j)
  /\ []((Loaded /\ j = 0) => (max_task = cpu_count /\ cpu_count >= 1))
  /\ [](queue_created => maxsize = max_task)
  /\ []((PoolStarted /\ j >= 0) =>
          /\ started = max_task
          /\ Cardinality({w \in Workers : wpc[w] # "unstarted"}) = max_task)
  /\ [][dpc # "load" => max_task' = max_task]_vars
  /\ [][queue_created => maxsize' = maxsize]_vars
  /\ [][dpc # "spawn" => started' = started]_vars

\* -j 0 on a host with two cpus: two threads wait on a queue of capacity 2
C13_Witness ==
  /\ dpc = "join"
  /\ j = 0 /\ cpu_count = 2
  /\ max_task = 2 /\ started = 2 /\ maxsize = 2

\* the positions of the loop body of run_tidy
InLoop == {"get", "popen", "communicate", "notice", "kill", "drain", "check",
           "lock", "stdout", "stderr", "task_done"}

\* a thread that has returned from run_tidy
Stopped(w) == wpc[w] \notin InLoop \cup {"unstarted", "gone"}

\* C14 as stated: once join has returned, every started worker eventually
\* leaves its loop and stops.
C14_WorkersStop ==
  (preflight = "ok" /\ dpc = "check") ~>
     (\A w \in Workers : wpc[w] # "unstarted" => Stopped(w))

\* C14 amended: no worker ever leaves its loop.  A started worker stays in
\* the loop until an exception ends it or the process ends; once join has
\* returned every started worker is blocked in get on the empty queue, and
\* the threads end only with the process.
C14_WorkersLoopForever ==
  /\ []((preflight = "ok" /\ dpc \in {"check", "exit"}) =>
          /\ task_queue = <<>>
          /\ \A w \in Workers : w <= started => wpc[w] = "get")
  /\ []((dpc \in Ended) =>
          \A w \in Workers : wpc[w] \in {"unstarted", "gone"})
  /\ [][\A w \in Workers :
          wpc[w] \in InLoop =>
            \/ wpc'[w] \in InLoop
            \/ /\ wpc'[w] = "dead"
               /\ wpc[w] \in {"popen", "communicate", "notice", "stdout", "stderr"}
            \/ wpc'[w] = "gone" /\ dpc' \in Ended]_vars

\* both workers have done work and wait in get while main is about to exit
C14_Witness ==
  /\ dpc = "exit"
  /\ started = 2
  /\ \A w \in Workers : w <= started => wpc[w] = "get"
  /\ \A i \in Items : i <= 2 => ndone[i] = 1

C16_QueueBounded ==
  /\ [](queue_created => (maxsize = max_task /\ Len(task_queue) <= maxsize))
  /\ [][queue_created => maxsize' = maxsize]_vars
  /\ [][Len(task_queue') > Len(task_queue) =>
          /\ Len(task_queue) < maxsize
          /\ \E i \in Items : task_queue' = Append(task_queue, i)]_vars
  /\ [][Len(task_queue') < Len(task_queue) =>
          /\ task_queue # <<>>
          /\ task_queue' = Tail(task_queue)
          /\ \E w \in Workers :
               wpc[w] = "get" /\ wpc'[w] = "popen" /\ name'[w] = Head(task_queue)]_vars

\* C17: a thread that an exception has ended has marked its name done, and
\* no name is marked done more than once.
C17_DoneOnEveryPath ==
  /\ \A w \in Workers : wpc[w] = "dead" => ndone[name[w]] = 1
  /\ \A i \in Items : ndone[i] <= 1
  /\ \A i \in Items : ndone[i] = 1 => nspawn[i] = 1

\* C18: whatever j is, at least one worker is started before the queue is
\* filled.
C18_SomeWorkerStarted ==
  (preflight = "ok" /\ dpc \in {"put", "join"}) => started >= 1

\* the names whose child is running
Running == {i \in Items : proc[i] = "running"}

\* the workers that have a child in flight
Holding(i) ==
  {w \in Workers : name[w] = i /\ wpc[w] \in {"communicate", "notice", "kill", "drain"}}

\* C19: the children that are running are at most as many as the workers
\* started (the pool size, max_task when it is not negative); every child
\* that is running or not yet reaped belongs to exactly one worker, which
\* has no other, and a worker dequeues its next name only after the child of
\* the previous one was reaped, its output written and the name marked done.
C19_ChildrenBounded ==
  /\ [](Cardinality(Running) <= started)
  /\ [](started <= IF max_task >= 0 THEN max_task ELSE 0)
  /\ [](\A i \in Items :
          proc[i] \in {"running", "exited"} =>
            (dpc \in Ended \/ Cardinality(Holding(i)) = 1))
  /\ [](\A i \in Items : nspawn[i] <= 1)
  /\ [](\A w \in Workers : wpc[w] = "get" => name[w] = 0)
  /\ [](\A i \in Items :
          (nspawn[i] = 1 /\ dpc \notin Ended) =>
            \/ Cardinality({w \in Workers :
                               name[w] = i /\ wpc[w] \in (InLoop \ {"get", "popen"})}) = 1
            \/ \E w \in Workers : name[w] = i /\ wpc[w] = "dead"
            \/ /\ proc[i] = "reaped" /\ "stdout" \in written[i] /\ ndone[i] = 1
               /\ \A w \in Workers : name[w] # i)

\* two children run at once under two workers
C19_Witness ==
  /\ started = 2 /\ max_task = 2
  /\ Cardinality(Running) = 2
  /\ \A w \in Workers : w <= 2 => wpc[w] = "communicate"

\* main waits in put or join and no thread can ever take or finish a name
Deadlock ==
  /\ preflight = "ok"
  /\ \/ dpc = "join" /\ unfinished_tasks > 0
     \/ dpc = "put" /\ toput # {} /\ Full
  /\ \A w \in Workers :
       \/ wpc[w] \in {"unstarted", "dead"}
       \/ wpc[w] = "get" /\ task_queue = <<>>

\* C20: the lock is held only by a worker that is writing: never in get, in
\* the wait for the child, or in task_done; hence main and the workers are
\* never all blocked while names remain, and when main exits normally the
\* lock is free and no child is running.
C20_NoDeadlock ==
  /\ ~InterruptHandled =>
       \A w \in Workers : lock = w <=> wpc[w] \in {"stdout", "stderr"}
  /\ ~Deadlock
  /\ (dpc = "exited" /\ preflight = "ok") => (lock = 0 /\ Running = {})

====
